---- MODULE Spec2Model ----
(***************************************************************************)
(* Pindar: audio transcription CLI (src/main.go, src/config.go).          *)
(*                                                                         *)
(* Strings are sequences of one-character tokens, so that prefix tests,    *)
(* trimming, extension splitting and path cleaning are computed the way    *)
(* the Go code computes them.  "x80" stands for a byte that is not valid   *)
(* UTF-8 and "ufffd" for the Unicode replacement rune U+FFFD.              *)
(***************************************************************************)
EXTENDS Integers, Sequences, FiniteSets, TLC

(***************************************************************************)
(* Bounds of the model                                                     *)
(***************************************************************************)
MaxPathLen == 3
MaxKeyLen == 2

(***************************************************************************)
(* Generic string helpers (package strings)                                *)
(***************************************************************************)
SeqsUpTo(S, n) == UNION {[1..k -> S] : k \in 0..n}

HasPrefix(s, p) == Len(s) >= Len(p) /\ SubSeq(s, 1, Len(p)) = p

HasSuffix(s, p) == Len(s) >= Len(p) /\ SubSeq(s, Len(s) - Len(p) + 1, Len(s)) = p

TrimSuffix(s, p) == IF HasSuffix(s, p) THEN SubSeq(s, 1, Len(s) - Len(p)) ELSE s

UpperLetters ==
    <<"A", "B", "C", "D", "E", "F", "G", "H", "I", "J", "K", "L", "M",
      "N", "O", "P", "Q", "R", "S", "T", "U", "V", "W", "X", "Y", "Z">>

LowerLetters ==
    <<"a", "b", "c", "d", "e", "f", "g", "h", "i", "j", "k", "l", "m",
      "n", "o", "p", "q", "r", "s", "t", "u", "v", "w", "x", "y", "z">>

UpperToLower ==
    [c \in {UpperLetters[i] : i \in 1..26} |->
        LowerLetters[CHOOSE i \in 1..26 : UpperLetters[i] = c]]

ToLower(s) == [i \in 1..Len(s) |-> IF s[i] \in DOMAIN UpperToLower THEN UpperToLower[s[i]] ELSE s[i]]

WhiteSpace == {" "}

\* strings.TrimSpace: drop leading and trailing white space.
TrimSpace(s) ==
    LET idx == {i \in 1..Len(s) : s[i] \notin WhiteSpace}
    IN  IF idx = {} THEN <<>>
        ELSE LET lo == CHOOSE i \in idx : \A j \in idx : i <= j
                 hi == CHOOSE i \in idx : \A j \in idx : i >= j
             IN  SubSeq(s, lo, hi)

(***************************************************************************)
(* package path/filepath (Unix)                                            *)
(***************************************************************************)
\* index of the last "/" of p, 0 when there is none
LastSlash(p) == CHOOSE i \in 0..Len(p) : (i = 0 \/ p[i] = "/") /\ \A j \in (i + 1)..Len(p) : p[j] # "/"

StripTrailingSlashes(p) ==
    LET k == CHOOSE k \in 0..Len(p) : (\A i \in (k + 1)..Len(p) : p[i] = "/") /\ (k = 0 \/ p[k] # "/")
    IN  SubSeq(p, 1, k)

Base(p) ==
    IF p = <<>> THEN <<".">>
    ELSE LET s == StripTrailingSlashes(p)
         IN  IF s = <<>> THEN <<"/">> ELSE SubSeq(s, LastSlash(s) + 1, Len(s))

\* the suffix beginning at the final dot of the final element, "" if none
Ext(p) ==
    LET i == CHOOSE i \in 0..Len(p) : (i = 0 \/ p[i] \in {".", "/"}) /\ \A j \in (i + 1)..Len(p) : p[j] \notin {".", "/"}
    IN  IF i > 0 /\ p[i] = "." THEN SubSeq(p, i, Len(p)) ELSE <<>>

RECURSIVE SplitSlash(_)
SplitSlash(p) ==
    IF \A i \in 1..Len(p) : p[i] # "/" THEN <<p>>
    ELSE LET i == CHOOSE i \in 1..Len(p) : p[i] = "/" /\ \A j \in 1..(i - 1) : p[j] # "/"
         IN  <<SubSeq(p, 1, i - 1)>> \o SplitSlash(SubSeq(p, i + 1, Len(p)))

RECURSIVE CleanElems(_, _, _)
CleanElems(elems, stack, rooted) ==
    IF elems = <<>> THEN stack
    ELSE LET e == Head(elems)
             rest == Tail(elems)
         IN  IF e = <<>> \/ e = <<".">> THEN CleanElems(rest, stack, rooted)
             ELSE IF e = <<".", ".">>
                  THEN IF stack # <<>> /\ stack[Len(stack)] # <<".", ".">>
                       THEN CleanElems(rest, SubSeq(stack, 1, Len(stack) - 1), rooted)
                       ELSE IF rooted THEN CleanElems(rest, stack, rooted)
                            ELSE CleanElems(rest, Append(stack, e), rooted)
                  ELSE CleanElems(rest, Append(stack, e), rooted)

RECURSIVE JoinSlash(_)
JoinSlash(elems) ==
    IF elems = <<>> THEN <<>>
    ELSE IF Len(elems) = 1 THEN elems[1]
    ELSE elems[1] \o <<"/">> \o JoinSlash(Tail(elems))

Clean(p) ==
    IF p = <<>> THEN <<".">>
    ELSE LET rooted == p[1] = "/"
             out == JoinSlash(CleanElems(SplitSlash(p), <<>>, rooted))
         IN  IF rooted THEN <<"/">> \o out
             ELSE IF out = <<>> THEN <<".">> ELSE out

\* filepath.Join of two elements
Join(a, b) ==
    IF a # <<>> THEN Clean(a \o <<"/">> \o b)
    ELSE IF b # <<>> THEN Clean(b)
    ELSE <<>>

(***************************************************************************)
(* Format gate (src/main.go)                                               *)
(***************************************************************************)
\* variant: the extension is what follows the first dot of the path
getFileExtension_FirstDot(filename) ==
    LET dots == {i \in 1..Len(filename) : filename[i] = "."}
    IN  IF dots = {} THEN <<>>
        ELSE LET i == CHOOSE i \in dots : \A j \in dots : i <= j
             IN  ToLower(SubSeq(filename, i + 1, Len(filename)))

getFileExtension(filename) ==
    LET ext == Ext(filename)
    IN  IF Len(ext) > 0 THEN ToLower(SubSeq(ext, 2, Len(ext))) ELSE <<>>

supportedFormats ==
    { <<"f","l","a","c">>, <<"m","p","3">>, <<"m","p","4">>, <<"m","p","e","g">>,
      <<"m","p","g","a">>, <<"m","4","a">>, <<"o","g","g">>, <<"w","a","v">>,
      <<"w","e","b","m">> }

isFormatSupported(ext) == ToLower(ext) \in supportedFormats

(***************************************************************************)
(* Output namer (src/main.go)                                              *)
(***************************************************************************)
\* variant: the extension is taken from the whole path and the directory part
\* is kept
determineOutputFileName_NoBase(a, originalFile) ==
    LET ext == Ext(originalFile)
        nameWithoutExt == SubSeq(originalFile, 1, Len(originalFile) - Len(ext))
        outputExt ==
            IF a.OutputExt # <<>>
            THEN IF ~HasPrefix(a.OutputExt, <<".">>) THEN <<".">> \o a.OutputExt ELSE a.OutputExt
            ELSE CASE a.Format = "srt" -> <<".", "s", "r", "t">>
                   [] a.Format = "vtt" -> <<".", "v", "t", "t">>
                   [] a.Format = "verbose_json" -> <<".", "j", "s", "o", "n">>
                   [] OTHER -> <<".", "t", "x", "t">>
    IN  Join(a.OutputDir, nameWithoutExt \o outputExt)

\* variant: a dot is always put before the override
determineOutputFileName_AlwaysDot(a, originalFile) ==
    LET base == Base(originalFile)
        ext == Ext(base)
        nameWithoutExt == SubSeq(base, 1, Len(base) - Len(ext))
        outputExt ==
            IF a.OutputExt # <<>>
            THEN <<".">> \o a.OutputExt
            ELSE CASE a.Format = "srt" -> <<".", "s", "r", "t">>
                   [] a.Format = "vtt" -> <<".", "v", "t", "t">>
                   [] a.Format = "verbose_json" -> <<".", "j", "s", "o", "n">>
                   [] OTHER -> <<".", "t", "x", "t">>
    IN  Join(a.OutputDir, nameWithoutExt \o outputExt)

determineOutputFileName(a, originalFile) ==
    LET base == Base(originalFile)
        ext == Ext(base)
        nameWithoutExt == SubSeq(base, 1, Len(base) - Len(ext))
        outputExt ==
            IF a.OutputExt # <<>>
            THEN IF ~HasPrefix(a.OutputExt, <<".">>) THEN <<".">> \o a.OutputExt ELSE a.OutputExt
            ELSE CASE a.Format = "srt" -> <<".", "s", "r", "t">>
                   [] a.Format = "vtt" -> <<".", "v", "t", "t">>
                   [] a.Format = "verbose_json" -> <<".", "j", "s", "o", "n">>
                   [] OTHER -> <<".", "t", "x", "t">>
    IN  Join(a.OutputDir, nameWithoutExt \o outputExt)

(***************************************************************************)
(* Credential store (src/config.go)                                        *)
(*                                                                         *)
(* The config file is absent, unparsable, or a JSON document whose         *)
(* openai_api_key member is the token sequence `data`.                     *)
(***************************************************************************)
Absent == [kind |-> "absent", data |-> <<>>]
Corrupt == [kind |-> "corrupt", data |-> <<>>]

\* encoding/json writes a string coerced to valid UTF-8: a byte that is not
\* valid UTF-8 is written as the six-character escape for U+FFFD.
\* A quotation mark is written as the two-character escape of it.
MarshalString(s) ==
    [i \in 1..Len(s) |->
        IF s[i] = "x80" THEN "\\ufffd" ELSE IF s[i] = "\"" THEN "\\\"" ELSE s[i]]

\* variant: the escape of a quotation mark is kept as it is
UnmarshalString_KeepEscapes(d) ==
    [i \in 1..Len(d) |-> IF d[i] = "\\ufffd" THEN "ufffd" ELSE d[i]]

\* the parser turns an escape into the rune it stands for
UnmarshalString(d) ==
    [i \in 1..Len(d) |->
        IF d[i] = "\\ufffd" THEN "ufffd" ELSE IF d[i] = "\\\"" THEN "\"" ELSE d[i]]

\* variant: a missing config file is an error
loadConfig_AbsentIsError(file, dirOK) ==
    IF ~dirOK THEN [err |-> TRUE, key |-> <<>>]
    ELSE IF file.kind \in {"absent", "corrupt"} THEN [err |-> TRUE, key |-> <<>>]
    ELSE [err |-> FALSE, key |-> UnmarshalString(file.data)]

\* loadConfig: [err, key]; dirOK is the outcome of getConfigFilePath
loadConfig(file, dirOK) ==
    IF ~dirOK THEN [err |-> TRUE, key |-> <<>>]
    ELSE IF file.kind = "absent" THEN [err |-> FALSE, key |-> <<>>]
    ELSE IF file.kind = "corrupt" THEN [err |-> TRUE, key |-> <<>>]
    ELSE [err |-> FALSE, key |-> UnmarshalString(file.data)]

\* saveConfig: [err, file]; outcome is what the file system does:
\*   "ok"     the file is written;
\*   "nodir"  getConfigFilePath fails;
\*   "noopen" os.WriteFile cannot open the file, which is left as it was;
\*   "short"  os.WriteFile truncated the file and failed while writing.
SaveOutcomes == {"ok", "nodir", "noopen", "short"}

saveConfig(key, file, outcome) ==
    CASE outcome = "ok" -> [err |-> FALSE, file |-> [kind |-> "json", data |-> MarshalString(key)]]
      [] outcome = "short" -> [err |-> TRUE, file |-> Corrupt]
      [] OTHER -> [err |-> TRUE, file |-> file]

\* Permissions.  A mode is the three octal digits <<owner, group, other>>,
\* NoMode the mode of what does not exist.  cfgPerm holds the mode of the
\* pindar directory and of the config file.
NoMode == <<>>

HasBit(d, b) == (d \div b) % 2 = 1

ClearBits(d, m) ==
    LET keep(b) == IF HasBit(d, b) /\ ~HasBit(m, b) THEN b ELSE 0
    IN  keep(1) + keep(2) + keep(4)

\* the mode a new file or directory gets: the requested one without the
\* bits of the process's umask
ApplyUmask(mode, umask) == [i \in 1..3 |-> ClearBits(mode[i], umask[i])]

\* os.MkdirAll(appConfigDir, 0755): an existing directory is left as it is
MkdirAllMode(dirMode, umask) ==
    IF dirMode = NoMode THEN ApplyUmask(<<7, 5, 5>>, umask) ELSE dirMode

\* os.WriteFile(configPath, data, 0600): the mode is used only when the file
\* is created
WriteFileMode(fileMode, umask) ==
    IF fileMode = NoMode THEN ApplyUmask(<<6, 0, 0>>, umask) ELSE fileMode

\* the modes after loadConfig, which calls getConfigDir
loadConfigPerm(perm, dirOK, umask) ==
    IF dirOK THEN [perm EXCEPT !.dir = MkdirAllMode(perm.dir, umask)] ELSE perm

\* the modes after saveConfig
saveConfigPerm(perm, outcome, umask) ==
    CASE outcome = "nodir" -> perm
      [] outcome = "noopen" -> [perm EXCEPT !.dir = MkdirAllMode(perm.dir, umask)]
      [] OTHER -> [dir |-> MkdirAllMode(perm.dir, umask),
                   file |-> WriteFileMode(perm.file, umask)]

NoPerm == [dir |-> NoMode, file |-> NoMode]

\* the modes the tool's own earlier save leaves under the usual umask
ToolPerm == [dir |-> <<7, 5, 5>>, file |-> <<6, 0, 0>>]

\* the umask of the invocations of main
Umask == <<0, 2, 2>>

\* promptForAPIKey: [err, key]; masked is whether term.ReadPassword worked,
\* typed the characters entered, readOK whether the fallback line read worked.
promptForAPIKey(masked, typed, readOK) ==
    IF ~masked
    THEN IF ~readOK THEN [err |-> TRUE, key |-> <<>>]
         ELSE [err |-> FALSE, key |-> TrimSpace(typed)]
    ELSE LET apiKey == TrimSpace(typed)
         IN  IF apiKey = <<>> THEN [err |-> TRUE, key |-> <<>>]
             ELSE [err |-> FALSE, key |-> apiKey]

NoCred ==
    [path |-> "none", err |-> FALSE, loadErr |-> FALSE, dirErr |-> FALSE, prompted |-> FALSE, masked |-> FALSE,
     entry |-> <<>>, saveCalled |-> FALSE, saveErr |-> FALSE]

\* variant: a failed save is an error
promptAndSave_SaveErrFatal(file, io) ==
    LET p == promptForAPIKey(io.masked, io.typed, io.readOK)
        c == [NoCred EXCEPT !.path = "prompt", !.prompted = TRUE, !.masked = io.masked,
                            !.entry = TrimSpace(io.typed)]
    IN  IF p.err
        THEN [key |-> <<>>, err |-> TRUE, file |-> file, cred |-> [c EXCEPT !.err = TRUE]]
        ELSE LET s == saveConfig(p.key, file, io.save)
             IN  IF s.err
                 THEN [key |-> <<>>, err |-> TRUE, file |-> s.file,
                       cred |-> [c EXCEPT !.err = TRUE, !.saveCalled = TRUE, !.saveErr = TRUE]]
                 ELSE [key |-> p.key, err |-> FALSE, file |-> s.file,
                       cred |-> [c EXCEPT !.saveCalled = TRUE]]

\* getAPIKey, step 4: prompt, then save; a failed save is only a warning.
\* [key, err, file, cred] as for getAPIKey.
promptAndSave(file, io) ==
    LET p == promptForAPIKey(io.masked, io.typed, io.readOK)
        c == [NoCred EXCEPT !.path = "prompt", !.prompted = TRUE, !.masked = io.masked,
                            !.entry = TrimSpace(io.typed)]
    IN  IF p.err
        THEN [key |-> <<>>, err |-> TRUE, file |-> file, cred |-> [c EXCEPT !.err = TRUE]]
        ELSE LET s == saveConfig(p.key, file, io.save)
             IN  [key |-> p.key, err |-> FALSE, file |-> s.file,
                  cred |-> [c EXCEPT !.saveCalled = TRUE, !.saveErr = s.err]]

\* variant: the environment variable is looked at before the CLI value
getAPIKey_EnvFirst(cliAPIKey, envAPIKey, file, io) ==
    IF envAPIKey # <<>>
    THEN [key |-> envAPIKey, err |-> FALSE, file |-> file, cred |-> [NoCred EXCEPT !.path = "env"]]
    ELSE IF cliAPIKey # <<>>
    THEN [key |-> cliAPIKey, err |-> FALSE, file |-> file, cred |-> [NoCred EXCEPT !.path = "cli"]]
    ELSE LET config == loadConfig(file, io.dirOK)
         IN  IF config.err
             THEN [key |-> <<>>, err |-> TRUE, file |-> file,
                   cred |-> [NoCred EXCEPT !.path = "config", !.err = TRUE, !.loadErr = TRUE,
                                           !.dirErr = ~io.dirOK]]
             ELSE IF config.key # <<>>
             THEN [key |-> config.key, err |-> FALSE, file |-> file,
                   cred |-> [NoCred EXCEPT !.path = "config"]]
             ELSE promptAndSave(file, io)

\* variant: a secret found in the environment is written to the config file
getAPIKey_PersistEnv(cliAPIKey, envAPIKey, file, io) ==
    IF cliAPIKey # <<>>
    THEN [key |-> cliAPIKey, err |-> FALSE, file |-> file, cred |-> [NoCred EXCEPT !.path = "cli"]]
    ELSE IF envAPIKey # <<>>
    THEN [key |-> envAPIKey, err |-> FALSE, file |-> saveConfig(envAPIKey, file, io.save).file,
          cred |-> [NoCred EXCEPT !.path = "env"]]
    ELSE LET config == loadConfig(file, io.dirOK)
         IN  IF config.err
             THEN [key |-> <<>>, err |-> TRUE, file |-> file,
                   cred |-> [NoCred EXCEPT !.path = "config", !.err = TRUE, !.loadErr = TRUE,
                                           !.dirErr = ~io.dirOK]]
             ELSE IF config.key # <<>>
             THEN [key |-> config.key, err |-> FALSE, file |-> file,
                   cred |-> [NoCred EXCEPT !.path = "config"]]
             ELSE promptAndSave(file, io)

\* variant: a config file that cannot be loaded is treated as holding no
\* secret
getAPIKey_PromptOnLoadErr(cliAPIKey, envAPIKey, file, io) ==
    IF cliAPIKey # <<>>
    THEN [key |-> cliAPIKey, err |-> FALSE, file |-> file, cred |-> [NoCred EXCEPT !.path = "cli"]]
    ELSE IF envAPIKey # <<>>
    THEN [key |-> envAPIKey, err |-> FALSE, file |-> file, cred |-> [NoCred EXCEPT !.path = "env"]]
    ELSE LET config == loadConfig(file, io.dirOK)
         IN  IF ~config.err /\ config.key # <<>>
             THEN [key |-> config.key, err |-> FALSE, file |-> file,
                   cred |-> [NoCred EXCEPT !.path = "config"]]
             ELSE promptAndSave(file, io)

\* getAPIKey: [key, err, file, cred] where file is the config file afterwards
\* and cred records the path taken.
getAPIKey(cliAPIKey, envAPIKey, file, io) ==
    IF cliAPIKey # <<>>
    THEN [key |-> cliAPIKey, err |-> FALSE, file |-> file, cred |-> [NoCred EXCEPT !.path = "cli"]]
    ELSE IF envAPIKey # <<>>
    THEN [key |-> envAPIKey, err |-> FALSE, file |-> file, cred |-> [NoCred EXCEPT !.path = "env"]]
    ELSE LET config == loadConfig(file, io.dirOK)
         IN  IF config.err
             THEN [key |-> <<>>, err |-> TRUE, file |-> file,
                   cred |-> [NoCred EXCEPT !.path = "config", !.err = TRUE, !.loadErr = TRUE,
                                           !.dirErr = ~io.dirOK]]
             ELSE IF config.key # <<>>
             THEN [key |-> config.key, err |-> FALSE, file |-> file,
                   cred |-> [NoCred EXCEPT !.path = "config"]]
             ELSE promptAndSave(file, io)

(***************************************************************************)
(* Conversion adapter (src/main.go)                                        *)
(***************************************************************************)
\* the directory os.MkdirTemp("", "pindar_convert") makes
TmpDir == <<"/", "T">>

ConvertedSuffix == <<"_converted", ".", "m", "p", "4">>

\* variant: ffmpeg is run without looking it up first
convertToMP4_NoLookPath(inputPath, io) ==
    IF ~io.mkTemp
    THEN [err |-> TRUE, path |-> <<>>, dirMade |-> FALSE, lookup |-> "none", ffmpegRan |-> FALSE]
    ELSE LET baseName == Base(inputPath)
             nameWithoutExt == TrimSuffix(baseName, Ext(baseName))
             outputPath == Join(TmpDir, nameWithoutExt \o ConvertedSuffix)
             lookup == IF io.found THEN "found" ELSE "missing"
         IN  IF ~io.found \/ ~io.ran
             THEN [err |-> TRUE, path |-> <<>>, dirMade |-> TRUE, lookup |-> lookup,
                   ffmpegRan |-> TRUE]
             ELSE [err |-> FALSE, path |-> outputPath, dirMade |-> TRUE, lookup |-> lookup,
                   ffmpegRan |-> TRUE]

\* convertToMP4: [err, path, dirMade, lookup, ffmpegRan]; io.mkTemp, io.found
\* and io.ran are the outcomes of os.MkdirTemp, exec.LookPath and cmd.Run.
convertToMP4(inputPath, io) ==
    IF ~io.mkTemp
    THEN [err |-> TRUE, path |-> <<>>, dirMade |-> FALSE, lookup |-> "none", ffmpegRan |-> FALSE]
    ELSE LET baseName == Base(inputPath)
             nameWithoutExt == TrimSuffix(baseName, Ext(baseName))
             outputPath == Join(TmpDir, nameWithoutExt \o ConvertedSuffix)
         IN  IF ~io.found
             THEN [err |-> TRUE, path |-> <<>>, dirMade |-> TRUE, lookup |-> "missing",
                   ffmpegRan |-> FALSE]
             ELSE IF ~io.ran
             THEN [err |-> TRUE, path |-> <<>>, dirMade |-> TRUE, lookup |-> "found",
                   ffmpegRan |-> TRUE]
             ELSE [err |-> FALSE, path |-> outputPath, dirMade |-> TRUE, lookup |-> "found",
                   ffmpegRan |-> TRUE]

(***************************************************************************)
(* Inputs                                                                  *)
(***************************************************************************)
PathChars == {"a", ".", "/"}

KeyChars == {"k", " ", "x80"}

\* what the user may type at the prompt
Entries == SeqsUpTo(KeyChars, MaxKeyLen)

\* the --api-key flag: absent, given empty, given with a value
CliFlags ==
    { [given |-> FALSE, value |-> <<>>], [given |-> TRUE, value |-> <<>>],
      [given |-> TRUE, value |-> <<"c">>] }

EnvValues == { <<>>, <<"e">> }

\* a natively supported input, an unsupported one, one without extension
Files == { <<"d", "/", "s", ".", "M", "P", "3">>, <<"s", ".", "a", "i", "f", "f">>, <<"s">> }

\* the --format values of the invocations; Formats below is the whole set
RunFormats == {"text", "srt"}

Formats == {"text", "srt", "vtt", "verbose_json", "", "json"}

OutputDirs == { <<>>, <<"o">> }

OutputExts == { <<>>, <<"x">> }

Texts == { <<>>, <<"h", "i">> }

\* the size limit of the transcription service, in bytes
MaxUploadBytes == 25 * 1024 * 1024

Sizes == {MaxUploadBytes, MaxUploadBytes + 1}

NoArgs == [File |-> <<>>, Format |-> "", OutputDir |-> <<>>, OutputExt |-> <<>>, APIKey |-> <<>>]

NoConv ==
    [attempted |-> FALSE, lookup |-> "none", ffmpegRan |-> FALSE, dirMade |-> FALSE,
     ok |-> FALSE, path |-> <<>>]

(***************************************************************************)
(* State                                                                   *)
(***************************************************************************)
VARIABLES
    pc,            \* the step main is at
    cli,           \* the --api-key flag of this invocation
    envAPIKey,     \* OPENAI_API_KEY in the environment of this invocation
    args,          \* main's args
    cfgFile,       \* the config file on disk
    cfgAtStart,    \* the config file when this invocation started
    lastSaved,     \* the secret of the latest successful interactive save
    apiKey,        \* main's apiKey
    cred,          \* what getAPIKey did in this invocation
    originalFile,  \* main's originalFile
    conv,          \* what convertToMP4 did in this invocation
    tempExists,    \* the converted temporary file is on disk
    opened,        \* the file main opened, <<>> before
    candidateSize, \* the size in bytes of the opened file
    serviceCalls,  \* calls of client.Audio.Transcriptions.New in this invocation
    response,      \* response.Text
    outputFile,    \* main's outputFile
    written,       \* the output files this invocation wrote
    stdout,        \* the transcriptions this invocation printed
    diag,          \* the stream of the diagnostic printed on failure
    exitCode,      \* the exit status, -1 while running
    namerIn,       \* arguments of a direct call of determineOutputFileName
    namerOut,      \* its result
    cfgPerm,       \* the modes of the pindar directory and the config file
    writeOutcome,  \* what os.WriteFile of the output file met, "none" before
    gate,          \* a direct call of the format gate's functions
    store,         \* direct calls of saveConfig and loadConfig
    race           \* two invocations saving at the same time

vars ==
    <<pc, cli, envAPIKey, args, cfgFile, cfgAtStart, lastSaved, apiKey, cred, originalFile,
      conv, tempExists, opened, candidateSize, serviceCalls, response, outputFile, written,
      stdout, diag, exitCode, namerIn, namerOut, cfgPerm, writeOutcome, gate, store, race>>

runVars ==
    <<apiKey, cred, originalFile, conv, tempExists, opened, candidateSize, serviceCalls,
      response, outputFile, written, stdout, diag, exitCode, writeOutcome>>

NoNamerIn == [a |-> NoArgs, file |-> <<>>]

NoNamerOut == [called |-> FALSE, name |-> <<>>]

NoGate == [file |-> <<>>, called |-> FALSE, ext |-> <<>>, byExt |-> FALSE, byName |-> FALSE]

NoRace == [bytes |-> <<>>, pcs |-> <<"idle", "idle">>, keys |-> << <<>>, <<>> >>, last |-> 0]

NoStore ==
    [key |-> <<>>, phase |-> "none", before |-> Absent, permBefore |-> NoPerm,
     outcome |-> "none", saveErr |-> FALSE, dirOK |-> FALSE,
     loaded |-> [err |-> FALSE, key |-> <<>>]]

RunInit ==
    /\ apiKey = <<>>
    /\ cred = NoCred
    /\ originalFile = <<>>
    /\ conv = NoConv
    /\ tempExists = FALSE
    /\ opened = <<>>
    /\ candidateSize = 0
    /\ serviceCalls = 0
    /\ response = <<>>
    /\ outputFile = <<>>
    /\ written = {}
    /\ stdout = <<>>
    /\ diag = "none"
    /\ exitCode = -1
    /\ writeOutcome = "none"

\* Before the first invocation: the config file was never written, or an
\* earlier interactive save left it complete or truncated.
Init ==
    /\ pc = "ParsingArgs"
    /\ cli = [given |-> FALSE, value |-> <<>>]
    /\ envAPIKey = <<>>
    /\ args = NoArgs
    /\ cfgFile \in {Absent, Corrupt, [kind |-> "json", data |-> <<"k">>]}
    /\ cfgAtStart = cfgFile
    /\ cfgPerm = IF cfgFile = Absent THEN NoPerm ELSE ToolPerm
    /\ lastSaved = [set |-> FALSE, key |-> <<>>]
    /\ RunInit
    /\ namerIn = NoNamerIn
    /\ namerOut = NoNamerOut
    /\ gate = NoGate
    /\ store = NoStore
    /\ race = NoRace

(***************************************************************************)
(* main (src/main.go), one action per step of the run                      *)
(***************************************************************************)
\* os.Exit(1) after printing the message with fmt.Printf: deferred calls do
\* not run.
Exit1 ==
    /\ pc' = "Failed"
    /\ exitCode' = 1
    /\ diag' = "stdout"

\* arg.MustParse of a new invocation; the api-key field is filled from the
\* flag, or from OPENAI_API_KEY when the flag is absent.
ParseArgs ==
    /\ pc \in {"ParsingArgs", "Done", "Failed"}
    /\ \E c \in CliFlags, e \in EnvValues, f \in Files, fmt \in RunFormats,
          d \in OutputDirs, x \in OutputExts :
          /\ cli' = c
          /\ envAPIKey' = e
          /\ args' = [File |-> f, Format |-> fmt, OutputDir |-> d, OutputExt |-> x,
                      APIKey |-> IF c.given THEN c.value ELSE e]
    /\ cfgAtStart' = cfgFile
    /\ pc' = "ResolvingCredential"
    /\ apiKey' = <<>>
    /\ cred' = NoCred
    /\ originalFile' = <<>>
    /\ conv' = NoConv
    /\ tempExists' = FALSE
    /\ opened' = <<>>
    /\ candidateSize' = 0
    /\ serviceCalls' = 0
    /\ response' = <<>>
    /\ outputFile' = <<>>
    /\ written' = {}
    /\ stdout' = <<>>
    /\ diag' = "none"
    /\ exitCode' = -1
    /\ writeOutcome' = "none"
    /\ UNCHANGED <<cfgFile, lastSaved, namerIn, namerOut, cfgPerm, gate, store, race>>

ResolveCredential ==
    /\ pc = "ResolvingCredential"
    /\ \E dirOK \in BOOLEAN, masked \in BOOLEAN, typed \in Entries, readOK \in BOOLEAN,
          save \in SaveOutcomes :
          LET r == getAPIKey(args.APIKey, envAPIKey, cfgFile,
                             [dirOK |-> dirOK, masked |-> masked, typed |-> typed,
                              readOK |-> readOK, save |-> save])
          IN  /\ cfgFile' = r.file
              /\ cred' = r.cred
              /\ apiKey' = r.key
              /\ lastSaved' = IF r.cred.saveCalled /\ ~r.cred.saveErr
                              THEN [set |-> TRUE, key |-> r.key] ELSE lastSaved
              /\ cfgPerm' = LET loaded == IF r.cred.path \in {"config", "prompt"}
                                          THEN loadConfigPerm(cfgPerm, dirOK, Umask)
                                          ELSE cfgPerm
                            IN  IF r.cred.saveCalled
                                THEN saveConfigPerm(loaded, save, Umask) ELSE loaded
              /\ IF r.err THEN Exit1
                 ELSE pc' = "GatingFormat" /\ UNCHANGED <<exitCode, diag>>
    /\ UNCHANGED <<cli, envAPIKey, args, cfgAtStart, originalFile, conv, tempExists, opened,
                   candidateSize, serviceCalls, response, outputFile, written, stdout,
                   namerIn, namerOut, writeOutcome, gate, store, race>>

\* variant: every input is converted
GateFormat_AlwaysConvert ==
    /\ pc = "GatingFormat"
    /\ originalFile' = args.File
    /\ pc' = "Converting"
    /\ UNCHANGED <<cli, envAPIKey, args, cfgFile, cfgAtStart, lastSaved, apiKey, cred, conv,
                   tempExists, opened, candidateSize, serviceCalls, response, outputFile,
                   written, stdout, diag, exitCode, namerIn, namerOut,
                   cfgPerm, writeOutcome, gate, store, race>>

GateFormat ==
    /\ pc = "GatingFormat"
    /\ originalFile' = args.File
    /\ pc' = IF ~isFormatSupported(getFileExtension(args.File)) THEN "Converting" ELSE "OpeningFile"
    /\ UNCHANGED <<cli, envAPIKey, args, cfgFile, cfgAtStart, lastSaved, apiKey, cred, conv,
                   tempExists, opened, candidateSize, serviceCalls, response, outputFile,
                   written, stdout, diag, exitCode, namerIn, namerOut,
                   cfgPerm, writeOutcome, gate, store, race>>

Convert ==
    /\ pc = "Converting"
    /\ \E mkTemp \in BOOLEAN, found \in BOOLEAN, ran \in BOOLEAN :
          LET r == convertToMP4(args.File, [mkTemp |-> mkTemp, found |-> found, ran |-> ran])
          IN  /\ conv' = [attempted |-> TRUE, lookup |-> r.lookup, ffmpegRan |-> r.ffmpegRan,
                          dirMade |-> r.dirMade, ok |-> ~r.err, path |-> r.path]
              /\ IF r.err
                 THEN Exit1 /\ UNCHANGED <<args, tempExists>>
                 ELSE /\ tempExists' = TRUE
                      /\ args' = [args EXCEPT !.File = r.path]
                      /\ pc' = "OpeningFile"
                      /\ UNCHANGED <<exitCode, diag>>
    /\ UNCHANGED <<cli, envAPIKey, cfgFile, cfgAtStart, lastSaved, apiKey, cred, originalFile,
                   opened, candidateSize, serviceCalls, response, outputFile, written, stdout,
                   namerIn, namerOut,
                   cfgPerm, writeOutcome, gate, store, race>>

OpenFile ==
    /\ pc = "OpeningFile"
    /\ \E ok \in BOOLEAN, size \in Sizes :
          IF ~ok
          THEN Exit1 /\ UNCHANGED <<opened, candidateSize>>
          ELSE /\ opened' = args.File
               /\ candidateSize' = size
               /\ pc' = "Calling"
               /\ UNCHANGED <<exitCode, diag>>
    /\ UNCHANGED <<cli, envAPIKey, args, cfgFile, cfgAtStart, lastSaved, apiKey, cred,
                   originalFile, conv, tempExists, serviceCalls, response, outputFile, written,
                   stdout, namerIn, namerOut,
                   cfgPerm, writeOutcome, gate, store, race>>

\* variant: the output file is created before the service is called
CallService_CreatesFile ==
    /\ pc = "Calling"
    /\ serviceCalls' = serviceCalls + 1
    /\ written' = IF args.OutputDir # <<>> \/ args.OutputExt # <<>>
                  THEN {[path |-> determineOutputFileName(args, originalFile),
                         content |-> <<>>]}
                  ELSE written
    /\ \E ok \in BOOLEAN, text \in Texts :
          IF ~ok
          THEN Exit1 /\ UNCHANGED response
          ELSE /\ response' = text
               /\ pc' = "NamingOutput"
               /\ UNCHANGED <<exitCode, diag>>
    /\ UNCHANGED <<cli, envAPIKey, args, cfgFile, cfgAtStart, lastSaved, apiKey, cred,
                   originalFile, conv, tempExists, opened, candidateSize, outputFile,
                   stdout, namerIn, namerOut, cfgPerm, writeOutcome, gate, store, race>>

CallService ==
    /\ pc = "Calling"
    /\ serviceCalls' = serviceCalls + 1
    /\ \E ok \in BOOLEAN, text \in Texts :
          IF ~ok
          THEN Exit1 /\ UNCHANGED response
          ELSE /\ response' = text
               /\ pc' = "NamingOutput"
               /\ UNCHANGED <<exitCode, diag>>
    /\ UNCHANGED <<cli, envAPIKey, args, cfgFile, cfgAtStart, lastSaved, apiKey, cred,
                   originalFile, conv, tempExists, opened, candidateSize, outputFile, written,
                   stdout, namerIn, namerOut,
                   cfgPerm, writeOutcome, gate, store, race>>

\* variant: the output is named after the file that is sent to the service
NameOutput_FromConverted ==
    /\ pc = "NamingOutput"
    /\ outputFile' = IF args.OutputDir # <<>> \/ args.OutputExt # <<>>
                     THEN determineOutputFileName(args, args.File) ELSE <<>>
    /\ pc' = "Emitting"
    /\ UNCHANGED <<cli, envAPIKey, args, cfgFile, cfgAtStart, lastSaved, apiKey, cred,
                   originalFile, conv, tempExists, opened, candidateSize, serviceCalls,
                   response, written, stdout, diag, exitCode, namerIn, namerOut,
                   cfgPerm, writeOutcome, gate, store, race>>

\* variant: a file name is computed in every invocation
NameOutput_Always ==
    /\ pc = "NamingOutput"
    /\ outputFile' = determineOutputFileName(args, originalFile)
    /\ pc' = "Emitting"
    /\ UNCHANGED <<cli, envAPIKey, args, cfgFile, cfgAtStart, lastSaved, apiKey, cred,
                   originalFile, conv, tempExists, opened, candidateSize, serviceCalls,
                   response, written, stdout, diag, exitCode, namerIn, namerOut,
                   cfgPerm, writeOutcome, gate, store, race>>

NameOutput ==
    /\ pc = "NamingOutput"
    /\ outputFile' = IF args.OutputDir # <<>> \/ args.OutputExt # <<>>
                     THEN determineOutputFileName(args, originalFile) ELSE <<>>
    /\ pc' = "Emitting"
    /\ UNCHANGED <<cli, envAPIKey, args, cfgFile, cfgAtStart, lastSaved, apiKey, cred,
                   originalFile, conv, tempExists, opened, candidateSize, serviceCalls,
                   response, written, stdout, diag, exitCode, namerIn, namerOut,
                   cfgPerm, writeOutcome, gate, store, race>>

\* what os.WriteFile(outputFile, ...) meets: it writes the file; the
\* directory of outputFile does not exist (main does not create it); or the
\* file cannot be written for another reason.
WriteOutcomes == {"ok", "nodir", "fault"}

\* write the file or print, then return from main: the deferred os.Remove of
\* the converted file runs.
Emit ==
    /\ pc = "Emitting"
    /\ IF outputFile # <<>>
       THEN \E o \in WriteOutcomes :
               /\ o = "nodir" => args.OutputDir # <<>>
               /\ writeOutcome' = o
               /\ IF o # "ok"
                  THEN Exit1 /\ UNCHANGED <<written, tempExists, stdout>>
                  ELSE /\ written' = {[path |-> outputFile, content |-> response]}
                       /\ tempExists' = FALSE
                       /\ pc' = "Done"
                       /\ exitCode' = 0
                       /\ UNCHANGED <<diag, stdout>>
       ELSE /\ stdout' = <<response>>
            /\ tempExists' = FALSE
            /\ pc' = "Done"
            /\ exitCode' = 0
            /\ UNCHANGED <<written, diag, writeOutcome>>
    /\ UNCHANGED <<cli, envAPIKey, args, cfgFile, cfgAtStart, lastSaved, apiKey, cred,
                   originalFile, conv, opened, candidateSize, serviceCalls, response,
                   outputFile, namerIn, namerOut, cfgPerm, gate, store, race>>

Next ==
    \/ ParseArgs
    \/ ResolveCredential
    \/ GateFormat
    \/ Convert
    \/ OpenFile
    \/ CallService
    \/ NameOutput
    \/ Emit

Spec == Init /\ [][Next]_vars

(***************************************************************************)
(* Direct calls of determineOutputFileName on every bounded input          *)
(***************************************************************************)
Paths == SeqsUpTo(PathChars, MaxPathLen)

NamerExts == { <<>>, <<"x">>, <<".", "x">>, <<".">>, <<"x", ".", "y">> }

InitNamer ==
    /\ pc = "Namer"
    /\ cli = [given |-> FALSE, value |-> <<>>]
    /\ envAPIKey = <<>>
    /\ args = NoArgs
    /\ cfgFile = Absent
    /\ cfgAtStart = Absent
    /\ cfgPerm = NoPerm
    /\ lastSaved = [set |-> FALSE, key |-> <<>>]
    /\ RunInit
    /\ gate = NoGate
    /\ store = NoStore
    /\ race = NoRace
    /\ \E f \in Paths, fmt \in Formats, d \in OutputDirs, x \in NamerExts :
          namerIn = [a |-> [File |-> f, Format |-> fmt, OutputDir |-> d, OutputExt |-> x,
                            APIKey |-> <<>>],
                     file |-> f]
    /\ namerOut = NoNamerOut

CallNamer ==
    /\ pc = "Namer"
    /\ ~namerOut.called
    /\ namerOut' = [called |-> TRUE, name |-> determineOutputFileName(namerIn.a, namerIn.file)]
    /\ UNCHANGED <<pc, cli, envAPIKey, args, cfgFile, cfgAtStart, lastSaved, namerIn,
                   cfgPerm, gate, store, race>>
    /\ UNCHANGED runVars

NextNamer == CallNamer

SpecNamer == InitNamer /\ [][NextNamer]_vars

(***************************************************************************)
(* Direct calls of the format gate's functions                             *)
(***************************************************************************)
GateDirs == { <<>>, <<"/">>, <<"d", "/">>, <<"d", ".", "w", "a", "v", "/">> }

GateStems == { <<>>, <<"a">>, <<"a", ".">>, <<"a", ".", "m", "p", "3">> }

\* extensions in lower, upper and mixed case: the formats the service takes,
\* "oga", and formats it does not take
GateExtNames ==
    { <<"f", "l", "a", "c">>, <<"m", "4", "a">>, <<"m", "p", "3">>,
      <<"m", "p", "4">>, <<"m", "p", "e", "g">>, <<"m", "p", "g", "a">>,
      <<"o", "g", "a">>, <<"o", "g", "g">>, <<"w", "a", "v">>,
      <<"w", "e", "b", "m">>, <<"M", "P", "3">>, <<"M", "p", "3">>,
      <<"W", "A", "V">>, <<"F", "L", "A", "C">>, <<"O", "g", "a">>,
      <<"W", "e", "b", "M">>, <<"a", "i", "f", "f">>, <<"A", "I", "F", "F">>,
      <<"a", "u">>, <<"a", "m", "r">>, <<"3", "g", "p">>,
      <<"x", "y", "z">> }

GateSuffixes == { <<>>, <<".">> } \cup { <<".">> \o e : e \in GateExtNames }

GateFiles == { d \o n \o x : d \in GateDirs, n \in GateStems, x \in GateSuffixes }

InitGate ==
    /\ pc = "Gate"
    /\ cli = [given |-> FALSE, value |-> <<>>]
    /\ envAPIKey = <<>>
    /\ args = NoArgs
    /\ cfgFile = Absent
    /\ cfgAtStart = Absent
    /\ cfgPerm = NoPerm
    /\ lastSaved = [set |-> FALSE, key |-> <<>>]
    /\ RunInit
    /\ namerIn = NoNamerIn
    /\ namerOut = NoNamerOut
    /\ store = NoStore
    /\ race = NoRace
    /\ \E f \in GateFiles : gate = [NoGate EXCEPT !.file = f]

\* ext and byExt are what main computes for args.File; byName is
\* isFormatSupported applied to the file name itself.
CallGate ==
    /\ pc = "Gate"
    /\ ~gate.called
    /\ gate' = [file |-> gate.file, called |-> TRUE,
                ext |-> getFileExtension(gate.file),
                byExt |-> isFormatSupported(getFileExtension(gate.file)),
                byName |-> isFormatSupported(gate.file)]
    /\ UNCHANGED <<pc, cli, envAPIKey, args, cfgFile, cfgAtStart, lastSaved, namerIn, namerOut,
                   cfgPerm, store, race>>
    /\ UNCHANGED runVars

NextGate == CallGate

SpecGate == InitGate /\ [][NextGate]_vars

(***************************************************************************)
(* Direct calls of saveConfig and loadConfig                               *)
(***************************************************************************)
StoreChars == {"k", " ", "x80", "\""}

StoreKeys == SeqsUpTo(StoreChars, MaxKeyLen)

\* no file, an unparsable file, a file holding a secret, a file holding none
StoreFiles ==
    { Absent, Corrupt, [kind |-> "json", data |-> <<"k">>], [kind |-> "json", data |-> <<>>] }

\* the directory was made by the tool under either umask or is not there
\* yet; an existing file was made by the tool or by hand
StorePerms(file) ==
    IF file = Absent
    THEN { [dir |-> d, file |-> NoMode] : d \in {NoMode, <<7, 5, 5>>, <<7, 0, 0>>} }
    ELSE { [dir |-> d, file |-> f] : d \in {<<7, 5, 5>>, <<7, 0, 0>>},
                                     f \in {<<6, 0, 0>>, <<6, 4, 4>>} }

Umasks == { <<0, 2, 2>>, <<0, 7, 7>> }

InitStore ==
    /\ pc = "Store"
    /\ cli = [given |-> FALSE, value |-> <<>>]
    /\ envAPIKey = <<>>
    /\ args = NoArgs
    /\ cfgFile \in StoreFiles
    /\ cfgAtStart = cfgFile
    /\ cfgPerm \in StorePerms(cfgFile)
    /\ lastSaved = [set |-> FALSE, key |-> <<>>]
    /\ RunInit
    /\ namerIn = NoNamerIn
    /\ namerOut = NoNamerOut
    /\ gate = NoGate
    /\ race = NoRace
    /\ \E k \in StoreKeys :
          store = [NoStore EXCEPT !.key = k, !.phase = "start", !.before = cfgFile,
                                  !.permBefore = cfgPerm]

\* saveConfig(&Config{OpenAIAPIKey: store.key})
StoreSave ==
    /\ pc = "Store"
    /\ store.phase = "start"
    /\ \E outcome \in SaveOutcomes, umask \in Umasks :
          LET r == saveConfig(store.key, cfgFile, outcome)
          IN  /\ cfgFile' = r.file
              /\ cfgPerm' = saveConfigPerm(cfgPerm, outcome, umask)
              /\ store' = [store EXCEPT !.phase = "saved", !.outcome = outcome,
                                        !.saveErr = r.err]
    /\ UNCHANGED <<pc, cli, envAPIKey, args, cfgAtStart, lastSaved, namerIn, namerOut, gate,
                   race>>
    /\ UNCHANGED runVars

\* loadConfig(), of the file as it was found or after the save
StoreLoad ==
    /\ pc = "Store"
    /\ store.phase \in {"start", "saved"}
    /\ \E dirOK \in BOOLEAN, umask \in Umasks :
          /\ store' = [store EXCEPT !.phase = IF store.phase = "start" THEN "loaded"
                                              ELSE "reloaded",
                                    !.dirOK = dirOK,
                                    !.loaded = loadConfig(cfgFile, dirOK)]
          /\ cfgPerm' = loadConfigPerm(cfgPerm, dirOK, umask)
    /\ UNCHANGED <<pc, cli, envAPIKey, args, cfgFile, cfgAtStart, lastSaved, namerIn, namerOut,
                   gate, race>>
    /\ UNCHANGED runVars

NextStore ==
    \/ StoreSave
    \/ StoreLoad

SpecStore == InitStore /\ [][NextStore]_vars

(***************************************************************************)
(* Two invocations that both prompted and now save (src/config.go)         *)
(*                                                                         *)
(* race.bytes is the content of the config file, race.pcs[w] where the     *)
(* os.WriteFile of invocation w is, race.keys[w] the secret it saves and   *)
(* race.last the invocation that wrote last.                               *)
(***************************************************************************)
Writers == {1, 2}

RaceChars == {"k", "j"}

\* the secrets entered at the two prompts
RaceKeys == SeqsUpTo(RaceChars, MaxKeyLen) \ { <<>> }

DocumentHead == <<"{", "\"openai_api_key\":", "\"">>

DocumentTail == <<"\"", "}">>

\* the bytes json.MarshalIndent makes of the record
Document(key) == DocumentHead \o MarshalString(key) \o DocumentTail

\* json.Unmarshal of the bytes os.ReadFile returns, as the config file they
\* make: one complete object and nothing after it, or a parse error
ParseDocument(bytes) ==
    LET n == Len(bytes)
    IN  IF /\ n >= Len(DocumentHead) + Len(DocumentTail)
           /\ SubSeq(bytes, 1, Len(DocumentHead)) = DocumentHead
           /\ SubSeq(bytes, n - 1, n) = DocumentTail
           /\ \A i \in (Len(DocumentHead) + 1)..(n - 2) :
                 bytes[i] \notin {"{", "}", "\"", "\"openai_api_key\":"}
        THEN [kind |-> "json", data |-> SubSeq(bytes, Len(DocumentHead) + 1, n - 2)]
        ELSE Corrupt

\* a write of data at offset 0 of a file that holds bytes
Overlay(bytes, data) == data \o SubSeq(bytes, Len(data) + 1, Len(bytes))

\* Both invocations found no secret (no file, or a record without secret),
\* prompted, and are about to call saveConfig with different secrets.
InitRace ==
    /\ pc = "Race"
    /\ cli = [given |-> FALSE, value |-> <<>>]
    /\ envAPIKey = <<>>
    /\ args = NoArgs
    /\ \E b \in { <<>>, Document(<<>>) }, k1 \in RaceKeys, k2 \in RaceKeys :
          /\ k1 # k2
          /\ race = [bytes |-> b, pcs |-> <<"open", "open">>, keys |-> <<k1, k2>>, last |-> 0]
          /\ cfgFile = IF b = <<>> THEN Absent ELSE ParseDocument(b)
    /\ cfgAtStart = cfgFile
    /\ cfgPerm = IF cfgFile = Absent THEN [ToolPerm EXCEPT !.file = NoMode] ELSE ToolPerm
    /\ lastSaved = [set |-> FALSE, key |-> <<>>]
    /\ RunInit
    /\ namerIn = NoNamerIn
    /\ namerOut = NoNamerOut
    /\ gate = NoGate
    /\ store = NoStore

\* os.WriteFile, first half: open with O_WRONLY|O_CREATE|O_TRUNC
RaceOpen ==
    /\ pc = "Race"
    /\ \E w \in Writers :
          /\ race.pcs[w] = "open"
          /\ race' = [race EXCEPT !.bytes = <<>>, !.pcs[w] = "write"]
    /\ cfgFile' = ParseDocument(<<>>)
    /\ cfgPerm' = [cfgPerm EXCEPT !.file = WriteFileMode(cfgPerm.file, Umask)]
    /\ UNCHANGED <<pc, cli, envAPIKey, args, cfgAtStart, lastSaved, namerIn, namerOut, gate,
                   store>>
    /\ UNCHANGED runVars

\* os.WriteFile, second half: write the document at the start of the file
\* and close it
RaceWrite ==
    /\ pc = "Race"
    /\ \E w \in Writers :
          /\ race.pcs[w] = "write"
          /\ LET b == Overlay(race.bytes, Document(race.keys[w]))
             IN  /\ race' = [race EXCEPT !.bytes = b, !.pcs[w] = "done", !.last = w]
                 /\ cfgFile' = ParseDocument(b)
    /\ UNCHANGED <<pc, cli, envAPIKey, args, cfgAtStart, lastSaved, namerIn, namerOut, gate,
                   store, cfgPerm>>
    /\ UNCHANGED runVars

NextRace ==
    \/ RaceOpen
    \/ RaceWrite

SpecRace == InitRace /\ [][NextRace]_vars

(***************************************************************************)
(* Properties                                                              *)
(***************************************************************************)
\* the secret a config file holds, "" when it holds none or cannot be read
StoredKey(file) == IF file.kind = "json" THEN UnmarshalString(file.data) ELSE <<>>

FirstNonEmpty(a, b, c) == IF a # <<>> THEN a ELSE IF b # <<>> THEN b ELSE c

\* getAPIKey has returned in this invocation
Resolved == pc \in {"GatingFormat", "Converting", "OpeningFile", "Calling", "NamingOutput",
                    "Emitting", "Done", "Failed"}

Ended == pc \in {"Done", "Failed"}

\* C1: whenever one of the CLI value, the environment variable and the
\* persisted secret is non-empty (and the record could be read), getAPIKey
\* returns the first non-empty of them in that order, without prompting; the
\* prompt is reached only when all three are empty.
C1_Precedence ==
    Resolved =>
        LET best == FirstNonEmpty(cli.value, envAPIKey, StoredKey(cfgAtStart))
        IN  /\ (cred.prompted =>
                   cli.value = <<>> /\ envAPIKey = <<>> /\ StoredKey(cfgAtStart) = <<>>)
            /\ (best # <<>> /\ ~cred.loadErr =>
                   ~cred.err /\ ~cred.prompted /\ apiKey = best)
            /\ (cred.loadErr => cli.value = <<>> /\ envAPIKey = <<>>)

\* the environment variable wins over a persisted secret when --api-key is
\* given empty
C1_Witness ==
    /\ pc = "GatingFormat"
    /\ cli.given /\ cli.value = <<>>
    /\ envAPIKey # <<>>
    /\ StoredKey(cfgAtStart) # <<>>
    /\ cred.path = "env"
    /\ apiKey = envAPIKey

\* C2: an invocation whose secret comes from the CLI value, the environment
\* variable or the persisted record never calls saveConfig and leaves the
\* config file as it was when the invocation started.
C2_NoPersistOnPaths123 ==
    cred.path \in {"cli", "env", "config"} => ~cred.saveCalled /\ cfgFile = cfgAtStart

C2_Witness ==
    /\ pc = "Done"
    /\ cred.path = "env"
    /\ cfgFile.kind = "json"
    /\ cfgFile = cfgAtStart

\* C3: once an interactive secret was saved successfully, a later invocation
\* with no CLI value and no environment variable (whose config directory
\* is available) gets exactly that secret from the record, without prompting.
C3_SavedSecretReused ==
    [][(/\ pc = "ResolvingCredential"
        /\ lastSaved.set
        /\ cli.value = <<>> /\ envAPIKey = <<>>
        /\ ~cred'.loadErr)
       => (cred'.path = "config" /\ ~cred'.err /\ apiKey' = lastSaved.key)]_vars

\* C4: on the interactive path an entry that is empty after trimming makes
\* getAPIKey fail: the run ends Failed, nothing is saved, no empty secret is
\* returned.
C4_EmptyEntryRejected ==
    (Resolved /\ cred.prompted /\ cred.entry = <<>>) =>
        /\ cred.err
        /\ pc = "Failed" /\ exitCode = 1
        /\ ~cred.saveCalled
        /\ cfgFile = cfgAtStart

\* C5: when the prompt gave a non-empty secret and saving it failed,
\* getAPIKey returns that secret without error and main goes on to the
\* format gate with it.
C5_SaveFailureIsWarning ==
    [][(pc = "ResolvingCredential" /\ cred'.prompted /\ cred'.entry # <<>> /\ cred'.saveErr)
       => (/\ ~cred'.err
           /\ apiKey' = cred'.entry
           /\ pc' = "GatingFormat"
           /\ exitCode' = -1)]_vars

C5_Witness ==
    /\ pc = "Calling"
    /\ cred.prompted /\ cred.saveCalled /\ cred.saveErr
    /\ apiKey # <<>>
    /\ apiKey = cred.entry

\* C6: a candidate file larger than 25 MiB is never sent to the
\* transcription service, and its run ends Failed with a non-zero exit.
C6_OversizeRejected ==
    (opened # <<>> /\ candidateSize > MaxUploadBytes) =>
        /\ serviceCalls = 0
        /\ pc # "Done"
        /\ (pc = "Failed" => exitCode # 0)

\* C7: when the extension is not natively supported and ffmpeg is not
\* found, no conversion is run, the run ends Failed with a non-zero exit and
\* the transcription service is not called.
C7_ConverterUnavailable ==
    (conv.attempted /\ conv.lookup = "missing") =>
        /\ ~isFormatSupported(getFileExtension(originalFile))
        /\ ~conv.ffmpegRan
        /\ ~conv.ok /\ ~tempExists
        /\ pc = "Failed" /\ exitCode = 1
        /\ serviceCalls = 0
        /\ opened = <<>>

C7_Witness ==
    /\ pc = "Failed"
    /\ conv.attempted /\ conv.lookup = "missing"
    /\ originalFile = <<"s", ".", "a", "i", "f", "f">>

\* C8: when conversion succeeded, the converted temporary file is gone once
\* the process has terminated, on the normal and on every failing exit.
C8_TempRemovedOnExit ==
    (Ended /\ conv.ok) => ~tempExists

\* the last non-empty element of a path; "." for the empty path and "/" for a
\* path of slashes only
LastElement(p) ==
    LET els == SelectSeq(SplitSlash(p), LAMBDA e : e # <<>>)
    IN  IF p = <<>> THEN <<".">> ELSE IF els = <<>> THEN <<"/">> ELSE els[Len(els)]

\* a name up to its final dot (the whole name when it has none)
Stem(n) ==
    LET dots == {i \in 1..Len(n) : n[i] = "."}
    IN  IF dots = {} THEN n
        ELSE SubSeq(n, 1, (CHOOSE i \in dots : \A j \in dots : j <= i) - 1)

FormatExt(fmt) ==
    CASE fmt = "srt" -> <<".", "s", "r", "t">>
      [] fmt = "vtt" -> <<".", "v", "t", "t">>
      [] fmt = "verbose_json" -> <<".", "j", "s", "o", "n">>
      [] fmt \in {"text", "", "json"} -> <<".", "t", "x", "t">>

\* a file name placed in the requested output directory, as a cleaned path
InOutputDir(dir, name) == IF dir = <<>> THEN Clean(name) ELSE Clean(dir \o <<"/">> \o name)

HasNonSlash(p) == \E i \in 1..Len(p) : p[i] # "/"

\* C9: without an extension override the name is the last element of the
\* input path up to its final dot, followed by the extension of the format
\* (.txt for text, unset and unrecognized formats); no directory of the
\* input appears in it.
C9_NameFromFormat ==
    (namerOut.called /\ namerIn.a.OutputExt = <<>>) =>
        LET name == Stem(LastElement(namerIn.file)) \o FormatExt(namerIn.a.Format)
        IN  /\ namerOut.name = InOutputDir(namerIn.a.OutputDir, name)
            /\ (HasNonSlash(namerIn.file) => \A i \in 1..Len(name) : name[i] # "/")
            /\ (namerIn.a.OutputDir = <<>> => namerOut.name = name)

C9_Witness ==
    /\ namerOut.called
    /\ namerIn.a.OutputExt = <<>>
    /\ namerIn.a.OutputDir = <<>>
    /\ namerIn.file = <<"/", "a", ".">>
    /\ namerIn.a.Format = "verbose_json"
    /\ namerOut.name = <<"a", ".", "j", "s", "o", "n">>

\* C10: with an extension override the name ends in the override, begun
\* with one dot, whatever the format; the override written without its dot
\* and with it give the same name.
C10_OverrideExt ==
    (namerOut.called /\ namerIn.a.OutputExt # <<>>) =>
        LET e == namerIn.a.OutputExt
            dotted == IF e[1] = "." THEN e ELSE <<".">> \o e
            name == Stem(LastElement(namerIn.file)) \o dotted
        IN  /\ namerOut.name = InOutputDir(namerIn.a.OutputDir, name)
            /\ (HasNonSlash(namerIn.file) /\ namerIn.a.OutputDir = <<>> => namerOut.name = name)
            /\ (e[1] # "." =>
                   determineOutputFileName([namerIn.a EXCEPT !.OutputExt = <<".">> \o e],
                                           namerIn.file) = namerOut.name)
            /\ \A fmt \in Formats :
                   determineOutputFileName([namerIn.a EXCEPT !.Format = fmt], namerIn.file)
                       = namerOut.name

C10_Witness ==
    /\ namerOut.called
    /\ namerIn.a.OutputExt = <<"x">>
    /\ namerIn.a.Format = "srt"
    /\ namerIn.file = <<"a", ".", "a">>
    /\ namerOut.name = <<"a", ".", "x">>

C12_DirCreatedAndFileWritten ==
    (Ended /\ args.OutputDir # <<>> /\ outputFile # <<>> /\ writeOutcome # "fault")
        => /\ pc = "Done"
           /\ written = {[path |-> determineOutputFileName(args, originalFile),
                          content |-> response]}

\* the final slash-separated element of a path: the file name
FinalElement(f) == SubSeq(f, LastSlash(f) + 1, Len(f))

\* what follows the final dot of a name, "" when the name has no dot
AfterFinalDot(n) ==
    LET dots == {i \in 1..Len(n) : n[i] = "."}
    IN  IF dots = {} THEN <<>>
        ELSE SubSeq(n, (CHOOSE i \in dots : \A j \in dots : i >= j) + 1, Len(n))

\* two strings are equal up to the case of their letters
SameUpToCase(a, b) ==
    /\ Len(a) = Len(b)
    /\ \A i \in 1..Len(a) :
          \/ a[i] = b[i]
          \/ \E k \in 1..26 : {a[i], b[i]} = {UpperLetters[k], LowerLetters[k]}

\* the lower-case spelling of an extension
IsLowerOf(l, e) ==
    /\ SameUpToCase(l, e)
    /\ \A i \in 1..Len(l) : \A k \in 1..26 : l[i] # UpperLetters[k]

\* C13: the decision of the format gate depends only on the lower-cased
\* text after the final dot of the file name (the final element of the
\* path): names that differ in the letter case of the extension, in leading
\* path components or in earlier dot-separated segments get the same
\* decision, and a name with no extension or with a trailing dot has the
\* empty extension and is not natively supported.
C13_GateDependsOnExtension ==
    gate.called =>
        LET e == AfterFinalDot(FinalElement(gate.file))
        IN  /\ IsLowerOf(gate.ext, e)
            /\ gate.byExt = (gate.ext \in supportedFormats)
            /\ e = <<>> => (gate.ext = <<>> /\ ~gate.byExt)
            /\ \A g \in GateFiles :
                  SameUpToCase(AfterFinalDot(FinalElement(g)), e)
                      => isFormatSupported(getFileExtension(g)) = gate.byExt

\* an upper-case extension after a dotted directory and an earlier dotted
\* segment, natively supported
C13_Witness ==
    /\ gate.called
    /\ gate.file = <<"d", ".", "w", "a", "v", "/", "a", ".", ".", "M", "P", "3">>
    /\ gate.ext = <<"m", "p", "3">>
    /\ gate.byExt

\* the ten extensions the claim lists
DocumentedFormats == supportedFormats \cup { <<"o", "g", "a">> }

\* C14: isFormatSupported, called with a file name, returns true exactly
\* when the file's extension is one of flac, m4a, mp3, mp4, mpeg, mpga, oga,
\* ogg, wav, webm (in any letter case), and false for every other extension
\* and for a name without extension.
C14_SupportedByName ==
    gate.called =>
        gate.byName = (\E l \in DocumentedFormats :
                          SameUpToCase(l, AfterFinalDot(FinalElement(gate.file))))

\* C15: every failure, in whatever step it happens, prints a diagnostic on
\* the standard error stream and ends the run with a non-zero exit status;
\* the exit status is zero only when the run reached Done.
C15_FailureOnStderr ==
    /\ pc = "Failed" => (diag = "stderr" /\ exitCode > 0)
    /\ exitCode = 0 => pc = "Done"

\* C16: in every run that fails before the output-writing step no output
\* file exists as a result of that run: the output path is written only
\* after a successful service response, with that response.
C16_NoOutputBeforeResponse ==
    /\ pc \in {"ResolvingCredential", "GatingFormat", "Converting", "OpeningFile", "Calling",
                "NamingOutput", "Emitting"} => written = {}
    /\ (pc = "Failed" /\ writeOutcome = "none") => written = {}
    /\ written # {} => /\ pc = "Done"
                       /\ serviceCalls = 1
                       /\ written = {[path |-> outputFile, content |-> response]}

\* the service call failed in a run that asked for an output directory
C16_Witness ==
    /\ pc = "Failed"
    /\ serviceCalls = 1
    /\ writeOutcome = "none"
    /\ args.OutputDir # <<>>
    /\ written = {}

ValidUTF8(s) == \A i \in 1..Len(s) : s[i] # "x80"

\* C17 as stated: for every secret s, saveConfig of a record holding s
\* followed by loadConfig returns a record whose secret is exactly s.
C17_RoundTrip ==
    (store.phase = "reloaded" /\ ~store.saveErr /\ ~store.loaded.err)
        => store.loaded.key = store.key

\* C17, amended: for every secret s that is valid UTF-8, saveConfig of a
\* record holding s followed by loadConfig returns a record whose secret is
\* exactly s; a byte of s that is not valid UTF-8 comes back as U+FFFD.
C17_RoundTripValidUTF8 ==
    (store.phase = "reloaded" /\ ~store.saveErr /\ store.dirOK)
        => /\ ~store.loaded.err
           /\ ValidUTF8(store.key) => store.loaded.key = store.key
           /\ store.loaded.key =
                 [i \in 1..Len(store.key) |->
                     IF store.key[i] = "x80" THEN "ufffd" ELSE store.key[i]]

\* a secret with a quotation mark and a blank, written over an unparsable
\* file and read back
C17_Witness ==
    /\ store.phase = "reloaded"
    /\ ~store.saveErr
    /\ store.before = Corrupt
    /\ store.key = <<"\"", " ">>
    /\ store.loaded = [err |-> FALSE, key |-> <<"\"", " ">>]

\* C18: whenever the config file does not exist (and its path can be
\* determined), loadConfig returns an empty record and no error, so that a
\* first run with no command-line and no environment secret goes on to the
\* interactive prompt.
C18_AbsentConfigPrompts ==
    /\ loadConfig(Absent, TRUE) = [err |-> FALSE, key |-> <<>>]
    /\ (Resolved /\ cfgAtStart = Absent /\ args.APIKey = <<>> /\ envAPIKey = <<>>
            /\ ~cred.dirErr)
          => (~cred.loadErr /\ cred.prompted /\ cred.path = "prompt")

C18_Witness ==
    /\ pc = "GatingFormat"
    /\ cfgAtStart = Absent
    /\ ~cli.given
    /\ envAPIKey = <<>>
    /\ cred.prompted
    /\ ~cred.loadErr
    /\ apiKey = <<"k">>

\* C19: after a successful saveConfig the config file has mode 0600, whether
\* it was created by the save or existed before, and the pindar directory,
\* when the tool created it, grants nothing to group and other.
C19_OwnerOnly ==
    (store.phase = "saved" /\ ~store.saveErr)
        => /\ cfgPerm.file = <<6, 0, 0>>
           /\ store.permBefore.dir = NoMode => (cfgPerm.dir[2] = 0 /\ cfgPerm.dir[3] = 0)

\* C20: a saveConfig that fails part-way while writing over an existing
\* valid config file leaves a file that still parses (the old record or the
\* complete new one), so that a later loadConfig does not fail on it.
C20_FailedSaveKeepsFileValid ==
    /\ (store.phase \in {"saved", "reloaded"} /\ store.before.kind = "json" /\ store.saveErr)
          => cfgFile \in {store.before, [kind |-> "json", data |-> MarshalString(store.key)]}
    /\ (store.phase = "reloaded" /\ store.before.kind = "json" /\ store.dirOK)
          => ~store.loaded.err

\* C21: when two invocations both take the interactive path and save
\* different secrets at the same time, then under every interleaving of
\* their file writes the config file, once both have finished, is a valid
\* record holding exactly the secret of the invocation that wrote last, never
\* a mixture of the two.
C21_LastWriterWins ==
    (race.pcs = <<"done", "done">>)
        => cfgFile = [kind |-> "json", data |-> MarshalString(race.keys[race.last])]

\* the format gate has looked at the input of this invocation
Gated == originalFile # <<>>

\* what the format gate reports for the input of this invocation
Native == isFormatSupported(getFileExtension(originalFile))

\* C22: convertToMP4 is called in a run if and only if the format gate
\* reports the extension of the input as not natively supported; for a
\* natively supported input the run goes from gating to opening the original
\* input file, and no temporary file or directory is created.
C22_ConvertIffUnsupported ==
    /\ conv.attempted => (Gated /\ ~Native)
    /\ conv.ffmpegRan => conv.attempted
    /\ pc = "Converting" => (Gated /\ ~Native /\ ~conv.attempted)
    /\ (Gated /\ ~Native /\ pc # "Converting") => conv.attempted
    /\ (Gated /\ Native)
          => /\ pc # "Converting"
             /\ ~conv.dirMade
             /\ ~tempExists
             /\ args.File = originalFile
             /\ opened \in {<<>>, originalFile}

\* ffmpeg has converted s.aiff and the run is about to open the result
C22_Witness ==
    /\ pc = "OpeningFile"
    /\ originalFile = <<"s", ".", "a", "i", "f", "f">>
    /\ conv.ffmpegRan
    /\ conv.ok
    /\ tempExists

\* the extension a run asks for: the override with a leading dot, or the
\* extension of the format
RequestedExt(a) ==
    IF a.OutputExt = <<>> THEN FormatExt(a.Format)
    ELSE IF a.OutputExt[1] = "." THEN a.OutputExt
    ELSE <<".">> \o a.OutputExt

\* C23: when conversion occurred, the output file name is made of the base
\* name of the original input path, never of the converted temporary file (no
\* "_converted" suffix, no temporary directory), and the file opened and sent
\* to the service is the converted one.
C23_NamedAfterOriginal ==
    /\ (conv.ok /\ outputFile # <<>>)
          => /\ outputFile = InOutputDir(args.OutputDir,
                                         Stem(LastElement(originalFile)) \o RequestedExt(args))
             /\ \A i \in 1..Len(outputFile) : outputFile[i] # "_converted"
             /\ ~HasPrefix(outputFile, TmpDir)
    /\ (conv.ok /\ (opened # <<>> \/ serviceCalls > 0))
          => /\ opened = conv.path
             /\ opened # originalFile
             /\ HasPrefix(opened, TmpDir)
             /\ HasSuffix(opened, ConvertedSuffix)

\* s.aiff was converted, the converted file was sent, and the transcription
\* is in o/s.srt
C23_Witness ==
    /\ pc = "Done"
    /\ conv.ok
    /\ originalFile = <<"s", ".", "a", "i", "f", "f">>
    /\ opened = <<"/", "T", "/", "s", "_converted", ".", "m", "p", "4">>
    /\ written = {[path |-> <<"o", "/", "s", ".", "s", "r", "t">>, content |-> <<"h", "i">>]}

\* C24: when neither the command line nor the environment supplies a secret
\* and the config file exists but is malformed, getAPIKey fails: no prompt is
\* shown, the malformed file is not overwritten, and the run ends with a
\* non-zero exit status before any conversion or service call.
C24_MalformedConfigFails ==
    (Resolved /\ cfgAtStart = Corrupt /\ args.APIKey = <<>> /\ envAPIKey = <<>>)
        => /\ cred.err /\ cred.loadErr
           /\ apiKey = <<>>
           /\ ~cred.prompted
           /\ ~cred.saveCalled
           /\ cfgFile = Corrupt
           /\ pc = "Failed"
           /\ exitCode = 1
           /\ ~Gated
           /\ ~conv.attempted
           /\ opened = <<>>
           /\ serviceCalls = 0

\* the malformed file was read (its path could be determined) and the run
\* has ended
C24_Witness ==
    /\ pc = "Failed"
    /\ cfgAtStart = Corrupt
    /\ ~cli.given
    /\ envAPIKey = <<>>
    /\ cred.path = "config"
    /\ cred.loadErr
    /\ ~cred.dirErr
    /\ exitCode = 1

\* each step finds the earlier steps done and the later ones not yet begun,
\* and the service is called at most once, after the credential was
\* resolved, a required conversion succeeded and the file was opened
StepsInOrder ==
    /\ serviceCalls \in {0, 1}
    /\ pc = "ResolvingCredential"
          => (cred = NoCred /\ ~Gated /\ ~conv.attempted /\ opened = <<>> /\ serviceCalls = 0)
    /\ pc = "GatingFormat"
          => /\ cred.path # "none" /\ ~cred.err
             /\ ~Gated /\ ~conv.attempted /\ opened = <<>> /\ serviceCalls = 0
    /\ pc = "Converting"
          => (Gated /\ ~conv.attempted /\ opened = <<>> /\ serviceCalls = 0)
    /\ pc = "OpeningFile"
          => (Gated /\ (conv.attempted => conv.ok) /\ opened = <<>> /\ serviceCalls = 0)
    /\ pc = "Calling"
          => (opened # <<>> /\ opened = args.File /\ serviceCalls = 0 /\ outputFile = <<>>)
    /\ pc = "NamingOutput"
          => (serviceCalls = 1 /\ outputFile = <<>> /\ written = {} /\ stdout = <<>>)
    /\ pc = "Emitting"
          => (serviceCalls = 1 /\ written = {} /\ stdout = <<>> /\ writeOutcome = "none")
    /\ serviceCalls > 0
          => /\ cred.path # "none" /\ ~cred.err
             /\ Gated
             /\ ~Native => conv.ok
             /\ opened # <<>>
    /\ (written # {} \/ stdout # <<>>) => (pc = "Done" /\ serviceCalls = 1)

\* the size check lies between the open and the service call
SizeCheckedBeforeCall ==
    (pc = "Calling" \/ serviceCalls > 0) => candidateSize <= MaxUploadBytes

\* C25: in every run the steps happen in the order credential resolution,
\* format gating, optional conversion, file open, size check, service call,
\* output naming, emission, and nothing is retried: the converter and the
\* service are each invoked at most once per run, and the service is called
\* only after the credential is resolved, a required conversion succeeded and
\* the candidate file was opened.
C25_FixedOrder == StepsInOrder /\ SizeCheckedBeforeCall
====
